---- MODULE Spec2Model ----
(***************************************************************************)
(* CoachChat (streaming chat component of the web app) as a state machine. *)
(* Text is a sequence of fragments, each one character of the text (the    *)
(* long literals of the source: one fragment); the response body is a      *)
(* sequence of bytes, an ASCII byte written as its character and the       *)
(* two-byte UTF-8 encoding of U+00E9 written as the bytes "C3", "A9".      *)
(***************************************************************************)
EXTENDS Integers, Sequences, FiniteSets

(* ------------------------------------------------------------------ *)
(* Bounds of the model                                                  *)
(* ------------------------------------------------------------------ *)

\* Number of accepted dispatches (turns) in one session.
MaxTurns == 2

\* Largest number of bytes the transport hands over in one read().
MaxChunk == 4

(* ------------------------------------------------------------------ *)
(* String primitives of JavaScript used by onSend                       *)
(* ------------------------------------------------------------------ *)

\* s.slice(n)
Slice(s, n) == SubSeq(s, n + 1, Len(s))

\* s.startsWith(p)
StartsWith(s, p) == Len(s) >= Len(p) /\ SubSeq(s, 1, Len(p)) = p

\* White space of String.prototype.trim within the modelled alphabet.
IsWhite(c) == c \in {" ", "\t", "\n", "\r"}

RECURSIVE TrimStart(_)
TrimStart(s) ==
    IF s # << >> /\ IsWhite(Head(s)) THEN TrimStart(Tail(s)) ELSE s

RECURSIVE TrimEnd(_)
TrimEnd(s) ==
    IF s # << >> /\ IsWhite(s[Len(s)]) THEN TrimEnd(SubSeq(s, 1, Len(s) - 1)) ELSE s

\* Faulty variant of Trim: the text is compared as it is.
Trim_Missing(s) == s

Trim(s) == TrimEnd(TrimStart(s))

\* s.split(sep) for a non-empty separator: the parts between the
\* non-overlapping occurrences of sep, scanned left to right.
RECURSIVE SplitFrom(_, _, _)
SplitFrom(s, sep, cur) ==
    IF s = << >> THEN << cur >>
    ELSE IF StartsWith(s, sep)
         THEN << cur >> \o SplitFrom(Slice(s, Len(sep)), sep, << >>)
         ELSE SplitFrom(Tail(s), sep, Append(cur, Head(s)))

Split(s, sep) == SplitFrom(s, sep, << >>)

\* Concatenation of a sequence of texts.
RECURSIVE Flatten(_)
Flatten(ss) == IF ss = << >> THEN << >> ELSE Head(ss) \o Flatten(Tail(ss))

\* Decimal text of a natural number (template literal `${n}`).
Digit(n) == << "0", "1", "2", "3", "4", "5", "6", "7", "8", "9" >>[n + 1]

RECURSIVE NatToText(_)
NatToText(n) == IF n < 10 THEN << Digit(n) >> ELSE Append(NatToText(n \div 10), Digit(n % 10))

IsPrefix(p, s) == Len(p) <= Len(s) /\ SubSeq(s, 1, Len(p)) = p

(* ------------------------------------------------------------------ *)
(* Literals of the source                                               *)
(* ------------------------------------------------------------------ *)

DataMarker == << "d", "a", "t", "a", ":" >>
DoneSentinel == << "[", "D", "O", "N", "E", "]" >>
FrameDelimiter == << "\n", "\n" >>
LineBreak == << "\n" >>
ErrorTag == << "\n", "[", "e", "r", "r", "o", "r", "]", " " >>
StreamFailed == << "s", "t", "r", "e", "a", "m", " ", "f", "a", "i", "l", "e", "d" >>
HttpPrefix == << "H", "T", "T", "P", " " >>

\* The two long literals of the source are kept as one fragment each: no
\* operation of the component looks inside them (trim only tests their
\* first and last character, neither of which is white space).
SeedContent ==
    << "You are in Coach Mode. Ask for an optimization goal (op, tensor shapes, constraints). I will propose kernels, compile, validate vs PyTorch, and benchmark." >>

InitialInput == << "Optimize softmax for 4090, batch=64, seq=4096." >>

SeedId == << "s", "y", "s", "-", "1" >>

seed == << [id |-> SeedId, role |-> "system", content |-> SeedContent] >>

(* ------------------------------------------------------------------ *)
(* JSON.parse, on the JSON grammar without string escapes and without   *)
(* fractions or exponents (the modelled payloads hold neither).         *)
(* A value is [t, s, keys, items]: t its type, s the characters of a    *)
(* string or of a number literal, keys/items the members of an object   *)
(* or the elements of an array.                                         *)
(* ------------------------------------------------------------------ *)

Undefined == [t |-> "undefined", s |-> << >>, keys |-> << >>, items |-> << >>]
JNull == [t |-> "null", s |-> << >>, keys |-> << >>, items |-> << >>]
JBool(b) == [t |-> IF b THEN "true" ELSE "false", s |-> << >>, keys |-> << >>, items |-> << >>]
JStr(s) == [t |-> "string", s |-> s, keys |-> << >>, items |-> << >>]
JNum(s) == [t |-> "number", s |-> s, keys |-> << >>, items |-> << >>]
JArr(items) == [t |-> "array", s |-> << >>, keys |-> << >>, items |-> items]
JObj(keys, items) == [t |-> "object", s |-> << >>, keys |-> keys, items |-> items]

ParseFail == [ok |-> FALSE, pos |-> 0, val |-> Undefined]
ParseOk(pos, val) == [ok |-> TRUE, pos |-> pos, val |-> val]

IsJsonWhite(c) == c \in {" ", "\t", "\n", "\r"}
IsDigit(c) == c \in {"0", "1", "2", "3", "4", "5", "6", "7", "8", "9"}
At(s, i) == IF i >= 1 /\ i <= Len(s) THEN s[i] ELSE "EOF"

RECURSIVE SkipWhite(_, _)
SkipWhite(s, i) == IF IsJsonWhite(At(s, i)) THEN SkipWhite(s, i + 1) ELSE i

\* Index of the closing quote of the string whose first character is at i,
\* or 0 when the string is not closed or holds a character JSON forbids.
RECURSIVE StringEnd(_, _)
StringEnd(s, i) ==
    IF i > Len(s) THEN 0
    ELSE IF s[i] = "\"" THEN i
    ELSE IF s[i] \in {"\\", "\n", "\t", "\r"} THEN 0
    ELSE StringEnd(s, i + 1)

ParseString(s, i) ==
    IF At(s, i) # "\"" THEN ParseFail
    ELSE LET e == StringEnd(s, i + 1)
         IN  IF e = 0 THEN ParseFail ELSE ParseOk(e + 1, JStr(SubSeq(s, i + 1, e - 1)))

RECURSIVE DigitsEnd(_, _)
DigitsEnd(s, i) == IF IsDigit(At(s, i)) THEN DigitsEnd(s, i + 1) ELSE i

ParseNumber(s, i) ==
    LET d == IF At(s, i) = "-" THEN i + 1 ELSE i
        e == IF At(s, d) = "0" THEN d + 1 ELSE DigitsEnd(s, d)
    IN  IF e = d \/ At(s, e) \in {".", "e", "E"} THEN ParseFail
        ELSE ParseOk(e, JNum(SubSeq(s, i, e - 1)))

ParseLiteral(s, i, word, val) ==
    IF i + Len(word) - 1 <= Len(s) /\ SubSeq(s, i, i + Len(word) - 1) = word
    THEN ParseOk(i + Len(word), val) ELSE ParseFail

RECURSIVE ParseValue(_, _)
RECURSIVE ParseElements(_, _, _)
RECURSIVE ParseMembers(_, _, _, _)

\* The elements after "[" or after a comma; i is at the next element.
ParseElements(s, i, items) ==
    LET v == ParseValue(s, SkipWhite(s, i))
        n == SkipWhite(s, v.pos)
    IN  IF ~v.ok THEN ParseFail
        ELSE IF At(s, n) = "," THEN ParseElements(s, n + 1, Append(items, v.val))
        ELSE IF At(s, n) = "]" THEN ParseOk(n + 1, JArr(Append(items, v.val)))
        ELSE ParseFail

\* The members after "{" or after a comma; i is at the next key.
ParseMembers(s, i, keys, items) ==
    LET k == ParseString(s, SkipWhite(s, i))
        c == SkipWhite(s, k.pos)
        v == ParseValue(s, SkipWhite(s, c + 1))
        n == SkipWhite(s, v.pos)
    IN  IF ~k.ok \/ At(s, c) # ":" THEN ParseFail
        ELSE IF ~v.ok THEN ParseFail
        ELSE IF At(s, n) = ","
             THEN ParseMembers(s, n + 1, Append(keys, k.val.s), Append(items, v.val))
        ELSE IF At(s, n) = "}"
             THEN ParseOk(n + 1, JObj(Append(keys, k.val.s), Append(items, v.val)))
        ELSE ParseFail

ParseValue(s, i) ==
    LET c == At(s, i)
    IN  IF c = "{" THEN
            IF At(s, SkipWhite(s, i + 1)) = "}"
            THEN ParseOk(SkipWhite(s, i + 1) + 1, JObj(<< >>, << >>))
            ELSE ParseMembers(s, i + 1, << >>, << >>)
        ELSE IF c = "[" THEN
            IF At(s, SkipWhite(s, i + 1)) = "]"
            THEN ParseOk(SkipWhite(s, i + 1) + 1, JArr(<< >>))
            ELSE ParseElements(s, i + 1, << >>)
        ELSE IF c = "\"" THEN ParseString(s, i)
        ELSE IF c = "t" THEN ParseLiteral(s, i, << "t", "r", "u", "e" >>, JBool(TRUE))
        ELSE IF c = "f" THEN ParseLiteral(s, i, << "f", "a", "l", "s", "e" >>, JBool(FALSE))
        ELSE IF c = "n" THEN ParseLiteral(s, i, << "n", "u", "l", "l" >>, JNull)
        ELSE IF c = "-" \/ IsDigit(c) THEN ParseNumber(s, i)
        ELSE ParseFail

\* JSON.parse(s): ok is FALSE where JSON.parse throws a SyntaxError.
JSONParse(s) ==
    LET v == ParseValue(s, SkipWhite(s, 1))
    IN  IF v.ok /\ SkipWhite(s, v.pos) > Len(s) THEN v ELSE ParseFail

\* obj?.error: the last member named "error" of an object; undefined for
\* an object without one and for an array.
RECURSIVE LastIndexOf(_, _, _)
LastIndexOf(keys, k, i) ==
    IF i = 0 THEN 0 ELSE IF keys[i] = k THEN i ELSE LastIndexOf(keys, k, i - 1)

ErrorKey == << "e", "r", "r", "o", "r" >>

ErrorField(obj) ==
    IF obj.t # "object" THEN Undefined
    ELSE LET i == LastIndexOf(obj.keys, ErrorKey, Len(obj.keys))
         IN  IF i = 0 THEN Undefined ELSE obj.items[i]

\* Faulty variant of Truthy: a test for a field that is present and not null.
Truthy_NotNullish(v) == v.t \notin {"undefined", "null"}

\* ToBoolean(v), the test of `if (obj?.error)`.
Truthy(v) ==
    CASE v.t \in {"undefined", "null", "false"} -> FALSE
      [] v.t = "string" -> v.s # << >>
      [] v.t = "number" -> v.s \notin { << "0" >>, << "-", "0" >> }
      [] OTHER -> TRUE

\* String(v), the conversion of `${obj.error}`.
RECURSIVE ToString(_)
RECURSIVE JoinItems(_)
JoinItems(items) ==
    IF items = << >> THEN << >>
    ELSE (IF Head(items).t \in {"null", "undefined"} THEN << >> ELSE ToString(Head(items)))
         \o (IF Len(items) > 1 THEN << "," >> \o JoinItems(Tail(items)) ELSE << >>)

ToString(v) ==
    CASE v.t = "string" -> v.s
      [] v.t = "number" -> IF v.s = << "-", "0" >> THEN << "0" >> ELSE v.s
      [] v.t = "array" -> JoinItems(v.items)
      [] v.t = "object" ->
            << "[", "o", "b", "j", "e", "c", "t", " ", "O", "b", "j", "e", "c", "t", "]" >>
      [] v.t = "true" -> << "t", "r", "u", "e" >>
      [] v.t = "false" -> << "f", "a", "l", "s", "e" >>
      [] v.t = "null" -> << "n", "u", "l", "l" >>
      [] OTHER -> << "u", "n", "d", "e", "f", "i", "n", "e", "d" >>

(* ------------------------------------------------------------------ *)
(* TextDecoder.decode(value, { stream: true })                          *)
(* ------------------------------------------------------------------ *)

LeadByte == "C3"
ContByte == "A9"
EAcute == "U+00E9"
Replacement == "U+FFFD"

\* The characters of the bytes bs and the bytes of an incomplete
\* character at their end, which the decoder keeps for the next call.
RECURSIVE DecodeBytes(_)
DecodeBytes(bs) ==
    IF bs = << >> THEN [text |-> << >>, pending |-> << >>]
    ELSE IF Head(bs) = LeadByte THEN
        IF Len(bs) = 1 THEN [text |-> << >>, pending |-> bs]
        ELSE IF bs[2] = ContByte
             THEN LET r == DecodeBytes(Slice(bs, 2))
                  IN  [text |-> << EAcute >> \o r.text, pending |-> r.pending]
             ELSE LET r == DecodeBytes(Tail(bs))
                  IN  [text |-> << Replacement >> \o r.text, pending |-> r.pending]
    ELSE LET r == DecodeBytes(Tail(bs))
         IN  [text |-> << IF Head(bs) = ContByte THEN Replacement ELSE Head(bs) >> \o r.text,
              pending |-> r.pending]

Decode(pending, value) == DecodeBytes(pending \o value)

(* ------------------------------------------------------------------ *)
(* The body of the read loop of onSend                                  *)
(* ------------------------------------------------------------------ *)

\* Faulty variant of Payload: all leading white space is removed.
Payload_TrimStart(ln) == TrimStart(Slice(ln, 5))

\* let raw = ln.slice(5); if (raw.startsWith(' ')) raw = raw.slice(1);
Payload(ln) ==
    LET raw == Slice(ln, 5)
    IN  IF StartsWith(raw, << " " >>) THEN Slice(raw, 1) ELSE raw

\* Faulty variant of Delta: the error text is appended without its tag.
Delta_NoTag(raw) ==
    LET jsonProbe == TrimStart(raw)
    IN  IF StartsWith(jsonProbe, << "{" >>) \/ StartsWith(jsonProbe, << "[" >>)
        THEN LET obj == JSONParse(jsonProbe)
             IN  IF ~obj.ok THEN raw
                 ELSE IF Truthy(ErrorField(obj.val))
                      THEN ToString(ErrorField(obj.val))
                      ELSE << >>
        ELSE raw

\* Faulty variant of Delta: a parsed payload without an error is shown as text.
Delta_PingShown(raw) ==
    LET jsonProbe == TrimStart(raw)
    IN  IF StartsWith(jsonProbe, << "{" >>) \/ StartsWith(jsonProbe, << "[" >>)
        THEN LET obj == JSONParse(jsonProbe)
             IN  IF ~obj.ok THEN raw
                 ELSE IF Truthy(ErrorField(obj.val))
                      THEN ErrorTag \o ToString(ErrorField(obj.val))
                      ELSE raw
        ELSE raw

\* Faulty variant of Delta: on a parse failure the trimmed probe is appended.
Delta_TrimmedFallback(raw) ==
    LET jsonProbe == TrimStart(raw)
    IN  IF StartsWith(jsonProbe, << "{" >>) \/ StartsWith(jsonProbe, << "[" >>)
        THEN LET obj == JSONParse(jsonProbe)
             IN  IF ~obj.ok THEN jsonProbe
                 ELSE IF Truthy(ErrorField(obj.val))
                      THEN ErrorTag \o ToString(ErrorField(obj.val))
                      ELSE << >>
        ELSE raw

\* The delta of a line that starts with 'data:' and is not the sentinel.
Delta(raw) ==
    LET jsonProbe == TrimStart(raw)
    IN  IF StartsWith(jsonProbe, << "{" >>) \/ StartsWith(jsonProbe, << "[" >>)
        THEN LET obj == JSONParse(jsonProbe)
             IN  IF ~obj.ok THEN raw
                 ELSE IF Truthy(ErrorField(obj.val))
                      THEN ErrorTag \o ToString(ErrorField(obj.val))
                      ELSE << >>
        ELSE raw

\* Faulty variant of ClassifyLine: white space before 'data:' is allowed.
ClassifyLine_Indented(ln) ==
    IF ~StartsWith(TrimStart(ln), DataMarker) THEN [kind |-> "skip", line |-> ln, delta |-> << >>]
    ELSE LET raw == Payload(TrimStart(ln))
             jsonProbe == TrimStart(raw)
         IN  IF Trim(raw) = DoneSentinel THEN [kind |-> "done", line |-> ln, delta |-> << >>]
             ELSE IF StartsWith(jsonProbe, << "{" >>) \/ StartsWith(jsonProbe, << "[" >>)
                  THEN IF ~JSONParse(jsonProbe).ok
                       THEN [kind |-> "fallback", line |-> ln, delta |-> Delta(raw)]
                       ELSE IF Truthy(ErrorField(JSONParse(jsonProbe).val))
                            THEN [kind |-> "error", line |-> ln, delta |-> Delta(raw)]
                            ELSE [kind |-> "ping", line |-> ln, delta |-> Delta(raw)]
                  ELSE [kind |-> "text", line |-> ln, delta |-> Delta(raw)]

\* What the loop body does with one line: kind "skip" for a line that
\* does not start with 'data:', "done" for the sentinel, else the kind
\* of the payload and the delta appended for it (empty: no setMessages).
ClassifyLine(ln) ==
    IF ~StartsWith(ln, DataMarker) THEN [kind |-> "skip", line |-> ln, delta |-> << >>]
    ELSE LET raw == Payload(ln)
             jsonProbe == TrimStart(raw)
         IN  IF Trim(raw) = DoneSentinel THEN [kind |-> "done", line |-> ln, delta |-> << >>]
             ELSE IF StartsWith(jsonProbe, << "{" >>) \/ StartsWith(jsonProbe, << "[" >>)
                  THEN IF ~JSONParse(jsonProbe).ok
                       THEN [kind |-> "fallback", line |-> ln, delta |-> Delta(raw)]
                       ELSE IF Truthy(ErrorField(JSONParse(jsonProbe).val))
                            THEN [kind |-> "error", line |-> ln, delta |-> Delta(raw)]
                            ELSE [kind |-> "ping", line |-> ln, delta |-> Delta(raw)]
                  ELSE [kind |-> "text", line |-> ln, delta |-> Delta(raw)]

\* for (const evt of events) for (const ln of evt.split('\n')): the lines
\* of the frames, in order.
RECURSIVE LinesOf(_)
LinesOf(events) ==
    IF events = << >> THEN << >>
    ELSE Split(Head(events), LineBreak) \o LinesOf(Tail(events))

\* The classified 'data:' lines of the frames, in order.
RECURSIVE ClassifyLines(_)
ClassifyLines(lines) ==
    IF lines = << >> THEN << >>
    ELSE LET e == ClassifyLine(Head(lines))
         IN  (IF e.kind = "skip" THEN << >> ELSE << e >>) \o ClassifyLines(Tail(lines))

\* Faulty variant of Reassemble: the carry-over is not put before the new text.
Reassemble_NoCarry(buffer, text) ==
    LET parts == Split(text, FrameDelimiter)
    IN  [events |-> SubSeq(parts, 1, Len(parts) - 1), buffer |-> parts[Len(parts)]]

\* Faulty variant of Reassemble: the last part is emitted as a frame as well.
Reassemble_NoPop(buffer, text) ==
    [events |-> Split(buffer \o text, FrameDelimiter), buffer |-> << >>]

\* buffer += text; events = buffer.split('\n\n'); buffer = events.pop() || '';
Reassemble(buffer, text) ==
    LET parts == Split(buffer \o text, FrameDelimiter)
    IN  [events |-> SubSeq(parts, 1, Len(parts) - 1), buffer |-> parts[Len(parts)]]

\* The deltas of a run of classified lines, those with an empty delta
\* left out (if (delta) ...), in order.
RECURSIVE Deltas(_)
Deltas(es) ==
    IF es = << >> THEN << >>
    ELSE (IF Head(es).delta = << >> THEN << >> ELSE << Head(es).delta >>) \o Deltas(Tail(es))

(* ------------------------------------------------------------------ *)
(* Inputs of the model                                                  *)
(* ------------------------------------------------------------------ *)

Data(payload) == DataMarker \o payload

\* Texts the user types into the input field.
Inputs == { << " " >>, << " ", "h", "i", " " >> }

\* message of the Error a rejected fetch() or read() carries (empty: none).
ErrorMessages == { << >>, << "r", "e", "s", "e", "t" >> }

\* Response body of the session-level specification: one frame, one delta.
SessionStreams == { Data(<< " ", "a" >>) \o FrameDelimiter }

\* Response bodies of the read-loop specification.
StreamHello ==
    Data(<< " ", "H", "i" >>) \o FrameDelimiter \o Data(<< " ", " ", "y", "o" >>) \o FrameDelimiter

StreamDone ==
    Data(<< " ", "a" >>) \o LineBreak \o Data(<< " " >> \o DoneSentinel) \o LineBreak
        \o Data(<< " ", "b" >>) \o FrameDelimiter \o Data(<< "c" >>) \o FrameDelimiter

StreamError ==
    Data(<< " ", "{", "\"", "e", "r", "r", "o", "r", "\"", ":", "\"", "e", "\"", "}" >>)
        \o FrameDelimiter \o Data(<< "x" >>) \o FrameDelimiter

StreamPing ==
    Data(<< " ", "{", "\"", "s", "\"", ":", "1", "}" >>) \o FrameDelimiter
        \o << ":", "c" >> \o LineBreak \o Data(<< "{", "x" >>) \o LineBreak
        \o << " " >> \o Data(<< "y" >>) \o FrameDelimiter

StreamTail ==
    Data(<< LeadByte, ContByte >>) \o FrameDelimiter \o LineBreak
        \o Data(<< "z" >>) \o LineBreak

StreamFalsy ==
    Data(<< "{", "\"", "e", "r", "r", "o", "r", "\"", ":", "0", "}" >>) \o LineBreak
        \o Data(<< " ", "[", "1", "]" >>) \o FrameDelimiter

\* The sentinel without the separating space, and with further white space
\* around it.
StreamSentinels ==
    Data(DoneSentinel) \o LineBreak \o Data(<< " ", " " >> \o DoneSentinel \o << "\t" >>)
        \o FrameDelimiter \o Data(<< "k" >>) \o FrameDelimiter

ErrorMember(value) == << "{", "\"", "e", "r", "r", "o", "r", "\"", ":" >> \o value \o << "}" >>

\* Error fields that hold an empty string and null.
StreamErrorEmpty ==
    Data(ErrorMember(<< "\"", "\"" >>)) \o LineBreak
        \o Data(ErrorMember(<< "n", "u", "l", "l" >>)) \o FrameDelimiter

\* Error fields that hold false and a number.
StreamErrorValues ==
    Data(ErrorMember(<< "f", "a", "l", "s", "e" >>)) \o LineBreak
        \o Data(<< " " >> \o ErrorMember(<< "7" >>)) \o FrameDelimiter

\* An error field that holds an object.
StreamErrorObject == Data(ErrorMember(<< "{", "}" >>)) \o FrameDelimiter

\* White space around payloads: text that looks structured and is not, with
\* a space before and after it; plain text followed by a space and a tab.
StreamSpaces ==
    Data(<< " ", " ", "{", "x", " " >>) \o LineBreak
        \o Data(<< " ", "a", " ", "\t" >>) \o FrameDelimiter

\* Lines that are not 'data:' lines: a frame of an event and an id field,
\* a frame of an empty line, a comment and an indented 'data:', then text.
StreamFields ==
    << "e", "v", "e", "n", "t", ":", "m" >> \o LineBreak \o << "i", "d", ":", "1" >>
        \o FrameDelimiter \o LineBreak \o << ":", "c" >> \o LineBreak
        \o << " " >> \o Data(<< "q" >>) \o FrameDelimiter
        \o Data(<< "r" >>) \o FrameDelimiter

\* Two 'data:' lines in one frame.
StreamLines ==
    Data(<< " ", "a" >>) \o LineBreak \o Data(<< " ", "b" >>) \o FrameDelimiter

WireStreams ==
    { StreamHello, StreamDone, StreamError, StreamPing, StreamTail, StreamFalsy,
      StreamSentinels, StreamErrorEmpty, StreamErrorValues, StreamErrorObject,
      StreamSpaces, StreamFields, StreamLines }

\* What fetch() resolves with: ok and status of the Response, and its body
\* (hasBody FALSE: res.body is null).
Responses(streams) ==
    [ok : {TRUE}, status : {200}, hasBody : {TRUE}, body : streams]
        \cup [ok : {FALSE}, status : {500}, hasBody : {TRUE}, body : {<< >>}]
        \cup [ok : {TRUE}, status : {204}, hasBody : {FALSE}, body : {<< >>}]

(* ------------------------------------------------------------------ *)
(* PlaygroundEditor                                                     *)
(* ------------------------------------------------------------------ *)

\* The kernel text is one fragment: nothing looks inside it.
defaultKernel ==
    << "// Triton example: vector add\n// Adjust BLOCK_SIZE to explore perf space\n#define BLOCK_SIZE 128\n\n// Pseudo-code placeholder (UI only)\n// Implement real kernels in pkgs/kernels and wire via API\n" >>

defaultConfig ==
    << "{", "\n", " ", " ", "\"", "d", "t", "y", "p", "e", "\"", ":",
       " ", "\"", "f", "l", "o", "a", "t", "3", "2", "\"", ",", "\n",
       " ", " ", "\"", "b", "l", "o", "c", "k", "_", "s", "i", "z",
       "e", "\"", ":", " ", "1", "2", "8", ",", "\n", " ", " ", "\"",
       "g", "r", "i", "d", "\"", ":", " ", "[", "2", "5", "6", ",",
       " ", "1", ",", " ", "1", "]", ",", "\n", " ", " ", "\"", "r",
       "e", "p", "e", "t", "i", "t", "i", "o", "n", "s", "\"", ":",
       " ", "1", "0", "0", "0", "\n", "}" >>

ReadyOutput == << "Ready. No run yet." >>
CompilingOutput == << "Compiling kernel ..." >>
NotAvailable == << "n", "/", "a" >>
BlockSizeKey == << "b", "l", "o", "c", "k", "_", "s", "i", "z", "e" >>

\* The member of obj with the given key, the last one when the key is
\* repeated; undefined when obj is not an object or has no such member.
Member(obj, key) ==
    IF obj.t # "object" THEN Undefined
    ELSE LET i == LastIndexOf(obj.keys, key, Len(obj.keys))
         IN  IF i = 0 THEN Undefined ELSE obj.items[i]

\* useMemo(() => { try { return JSON.parse(config) } catch (e) { return null } })
ParsedConfig(text) ==
    IF JSONParse(text).ok THEN JSONParse(text).val ELSE JNull

\* parsedConfig?.block_size ?? 'n/a', as the template literal prints it
BlockSizeText(parsed) ==
    LET bs == IF parsed.t \in {"null", "undefined"} THEN Undefined
              ELSE Member(parsed, BlockSizeKey)
    IN  IF bs.t \in {"null", "undefined"} THEN NotAvailable ELSE ToString(bs)

\* The four lines joined by "\n".
Report(bs) ==
    << "Compile: success", "\n", "Config: block_size=" >> \o bs
        \o << "\n", "Validate: OK vs PyTorch baseline", "\n",
              "Latency: 12.34 us  |  Throughput: 89.0 GB/s" >>

\* Texts typed into the two text areas.
Kernels == { defaultKernel, << "x" >> }

Configs ==
    { defaultConfig,
      << "{", "\"", "b", "l", "o", "c", "k", "_", "s", "i", "z", "e", "\"", ":", "6", "4", "}" >>,
      << "{", "\"", "b", "l", "o", "c", "k", "_", "s", "i", "z", "e", "\"", ":", "n", "u", "l", "l", "}" >>,
      << "{", "}" >>,
      << "[", "1", "]" >>,
      << "7" >>,
      << "{", "x" >>,
      << >>,
      << "n", "u", "l", "l" >>,
      << "0" >>,
      << "f", "a", "l", "s", "e" >>,
      << "\"", "\"" >> }

(* ------------------------------------------------------------------ *)
(* State                                                                *)
(* ------------------------------------------------------------------ *)

VARIABLES
    messages,   \* useState<Message[]>(seed)
    input,      \* useState('Optimize softmax ...')
    sending,    \* useState(false)
    turns       \* the calls of onSend that passed the input check, in call order:
                \* where each stands (pc), its locals (assistantId, buffer, the
                \* decoder's pending bytes), its request (body) and response
                \* (wire, of which got bytes were read), and a record of the
                \* frames it split off and the 'data:' lines it classified

vars == << messages, input, sending, turns >>

\* The state of PlaygroundEditor, the component of the playground page.
VARIABLES
    kernel,     \* useState(defaultKernel)
    config,     \* useState(defaultConfig)
    running,    \* useState(false)
    output,     \* useState("Ready. No run yet.")
    timers      \* the callbacks handed to setTimeout that have not run yet, in
                \* the order they were set: the parsedConfig each closed over,
                \* and the config text that parsedConfig was parsed from

playgroundVars == << kernel, config, running, output, timers >>

\* crypto.randomUUID(): the n-th identifier drawn in the session.
Uuid(n) == << "u", "u", "i", "d", "-" >> \o NatToText(n)

\* Faulty variant of AppendMessage: the new message is put first.
AppendMessage_Front(m, msg) == << msg >> \o m

\* setMessages((m) => [...m, msg])
AppendMessage(m, msg) == Append(m, msg)

\* Faulty variant of AppendContent: the delta is put before the content.
AppendContent_Prepend(m, assistantId, delta) ==
    [i \in 1..Len(m) |->
        IF m[i].id = assistantId THEN [m[i] EXCEPT !.content = delta \o @] ELSE m[i]]

\* Faulty variant of AppendContent: the delta goes to every assistant message.
AppendContent_AnyAssistant(m, assistantId, delta) ==
    [i \in 1..Len(m) |->
        IF m[i].role = "assistant" THEN [m[i] EXCEPT !.content = @ \o delta] ELSE m[i]]

\* Faulty variant of AppendContent: the delta goes to the last message.
AppendContent_LastMessage(m, assistantId, delta) ==
    [i \in 1..Len(m) |->
        IF i = Len(m) THEN [m[i] EXCEPT !.content = @ \o delta] ELSE m[i]]

\* setMessages((m) => m.map((msg) =>
\*   msg.id === assistantId ? { ...msg, content: msg.content + delta } : msg))
AppendContent(m, assistantId, delta) ==
    [i \in 1..Len(m) |->
        IF m[i].id = assistantId THEN [m[i] EXCEPT !.content = @ \o delta] ELSE m[i]]

\* Faulty variant of ApplyDeltas: a line break is put between two deltas.
RECURSIVE ApplyDeltas_Separated(_, _, _)
ApplyDeltas_Separated(m, assistantId, ds) ==
    IF ds = << >> THEN m
    ELSE ApplyDeltas_Separated(
             AppendContent(m, assistantId,
                 IF Len(ds) > 1 THEN Head(ds) \o LineBreak ELSE Head(ds)),
             assistantId, Tail(ds))

\* The setMessages calls of one pass over the classified lines, in order.
RECURSIVE ApplyDeltas(_, _, _)
ApplyDeltas(m, assistantId, ds) ==
    IF ds = << >> THEN m
    ELSE ApplyDeltas(AppendContent(m, assistantId, Head(ds)), assistantId, Tail(ds))

\* Faulty variant of RequestMessages: the new placeholder is sent as well.
RequestMessages_WithPlaceholder(m, userMsg) ==
    [i \in 1..Len(m) |-> [role |-> m[i].role, content |-> m[i].content]]
        \o << [role |-> "user", content |-> userMsg.content],
              [role |-> "assistant", content |-> << >>] >>

\* messages.map(({ role, content }) => ({ role, content })), then the user turn
RequestMessages(m, userMsg) ==
    [i \in 1..Len(m) |-> [role |-> m[i].role, content |-> m[i].content]]
        \o << [role |-> "user", content |-> userMsg.content] >>

\* err?.message || 'stream failed'
ErrorText(message) == IF message = << >> THEN StreamFailed ELSE message

Init ==
    /\ messages = seed
    /\ input = InitialInput
    /\ sending = FALSE
    /\ turns = << >>
    /\ kernel = defaultKernel
    /\ config = defaultConfig
    /\ running = FALSE
    /\ output = ReadyOutput
    /\ timers = << >>

Active(t) == turns[t].pc # "done"

\* onChange={(e) => setInput(e.target.value)}
onChange(v) ==
    /\ input' = v
    /\ UNCHANGED << messages, sending, turns >>

\* res before fetch() has resolved, and ok, status and body != null of the
\* Response once it has.
NoResponse == [ok |-> FALSE, status |-> 0, hasBody |-> FALSE]
ResponseOf(res) == [ok |-> res.ok, status |-> res.status, hasBody |-> res.hasBody]

\* Faulty variant of onSend: without the test for blank input.
onSend_NoBlankCheck(cap) ==
    /\ Len(turns) < cap
    /\ LET userMsg == [id |-> Uuid(2 * Len(turns) + 1), role |-> "user",
                       content |-> Trim(input)]
           assistantId == Uuid(2 * Len(turns) + 2)
       IN  /\ messages' = AppendMessage(AppendMessage(messages, userMsg),
                              [id |-> assistantId, role |-> "assistant", content |-> << >>])
           /\ input' = << >>
           /\ sending' = TRUE
           /\ turns' = Append(turns,
                  [assistantId |-> assistantId, pc |-> "fetch",
                   body |-> RequestMessages(messages, userMsg),
                   wire |-> << >>, got |-> 0, pending |-> << >>, buffer |-> << >>,
                   res |-> NoResponse, frames |-> << >>, events |-> << >>,
                   outcome |-> "none", error |-> << >>])

\* Faulty variant of onSend: the placeholder is appended before the user message.
onSend_AssistantFirst(cap) ==
    /\ Len(turns) < cap
    /\ IF Trim(input) = << >>
       THEN UNCHANGED vars
       ELSE LET userMsg == [id |-> Uuid(2 * Len(turns) + 1), role |-> "user",
                            content |-> Trim(input)]
                assistantId == Uuid(2 * Len(turns) + 2)
            IN  /\ messages' = AppendMessage(AppendMessage(messages,
                                   [id |-> assistantId, role |-> "assistant", content |-> << >>]),
                                   userMsg)
                /\ input' = << >>
                /\ sending' = TRUE
                /\ turns' = Append(turns,
                       [assistantId |-> assistantId, pc |-> "fetch",
                        body |-> RequestMessages(messages, userMsg),
                        wire |-> << >>, got |-> 0, pending |-> << >>, buffer |-> << >>,
                        res |-> NoResponse, frames |-> << >>, events |-> << >>,
                        outcome |-> "none", error |-> << >>])

\* onSend up to its first await: the submit handler of the form calls it
\* whatever sending is (only the button carries disabled={sending}).
onSend(cap) ==
    /\ Len(turns) < cap
    /\ IF Trim(input) = << >>
       THEN UNCHANGED vars
       ELSE LET userMsg == [id |-> Uuid(2 * Len(turns) + 1), role |-> "user",
                            content |-> Trim(input)]
                assistantId == Uuid(2 * Len(turns) + 2)
            IN  /\ messages' = AppendMessage(AppendMessage(messages, userMsg),
                                   [id |-> assistantId, role |-> "assistant", content |-> << >>])
                /\ input' = << >>
                /\ sending' = TRUE
                /\ turns' = Append(turns,
                       [assistantId |-> assistantId, pc |-> "fetch",
                        body |-> RequestMessages(messages, userMsg),
                        wire |-> << >>, got |-> 0, pending |-> << >>, buffer |-> << >>,
                        res |-> NoResponse, frames |-> << >>, events |-> << >>,
                        outcome |-> "none", error |-> << >>])

\* The turn-local state once onSend has returned: the reader, the decoder
\* and the buffer are gone; what was classified and how the turn ended stay
\* on record.
Returned(turn, outcome, message) ==
    [turn EXCEPT !.pc = "done", !.outcome = outcome, !.error = message,
                 !.wire = << >>, !.got = 0, !.pending = << >>, !.buffer = << >>]

\* Faulty variant of CatchWith: without the finally block.
CatchWith_KeepSending(t, res, message) ==
    /\ messages' = AppendContent(messages, turns[t].assistantId, ErrorTag \o ErrorText(message))
    /\ turns' = [turns EXCEPT ![t] = Returned([@ EXCEPT !.res = res], "errored",
                                             ErrorText(message))]
    /\ UNCHANGED << input, sending >>

\* catch (err) { setMessages(... + `\n[error] ${...}`) } finally { setSending(false) }
\* in a call of onSend whose fetch has given res.
CatchWith(t, res, message) ==
    /\ messages' = AppendContent(messages, turns[t].assistantId, ErrorTag \o ErrorText(message))
    /\ sending' = FALSE
    /\ turns' = [turns EXCEPT ![t] = Returned([@ EXCEPT !.res = res], "errored",
                                             ErrorText(message))]
    /\ UNCHANGED input

\* Faulty variant of Catch: the annotation replaces the content instead of
\* being appended to it.
Catch_Replace(t, message) ==
    /\ messages' = [i \in 1..Len(messages) |->
                       IF messages[i].id = turns[t].assistantId
                       THEN [messages[i] EXCEPT !.content = ErrorTag \o ErrorText(message)]
                       ELSE messages[i]]
    /\ sending' = FALSE
    /\ turns' = [turns EXCEPT ![t] = Returned(@, "errored", ErrorText(message))]
    /\ UNCHANGED input

Catch(t, message) == CatchWith(t, turns[t].res, message)

\* Faulty variant of FetchResolves: only res.ok is tested, not res.body.
FetchResolves_OkOnly(t, res) ==
    /\ turns[t].pc = "fetch"
    /\ IF ~res.ok
       THEN CatchWith(t, ResponseOf(res), HttpPrefix \o NatToText(res.status))
       ELSE /\ turns' = [turns EXCEPT ![t].pc = "read", ![t].wire = res.body,
                                     ![t].res = ResponseOf(res)]
            /\ UNCHANGED << messages, input, sending >>

\* await fetch(...) resolves; if (!res.ok || !res.body) throw new Error(`HTTP ${res.status}`)
FetchResolves(t, res) ==
    /\ turns[t].pc = "fetch"
    /\ IF ~res.ok \/ ~res.hasBody
       THEN CatchWith(t, ResponseOf(res), HttpPrefix \o NatToText(res.status))
       ELSE /\ turns' = [turns EXCEPT ![t].pc = "read", ![t].wire = res.body,
                                     ![t].res = ResponseOf(res)]
            /\ UNCHANGED << messages, input, sending >>

\* await fetch(...) rejects
FetchRejects(t, message) ==
    /\ turns[t].pc = "fetch"
    /\ Catch(t, message)

\* await reader.read() resolves with { value, done: false }, value the next
\* n bytes of the body: one pass of the while loop.
ReadValue(t, n) ==
    /\ turns[t].pc = "read"
    /\ n >= 1 /\ turns[t].got + n <= Len(turns[t].wire)
    /\ LET value == SubSeq(turns[t].wire, turns[t].got + 1, turns[t].got + n)
           dec == Decode(turns[t].pending, value)
           re == Reassemble(turns[t].buffer, dec.text)
           es == ClassifyLines(LinesOf(re.events))
       IN  /\ messages' = ApplyDeltas(messages, turns[t].assistantId, Deltas(es))
           /\ turns' = [turns EXCEPT ![t].got = @ + n, ![t].pending = dec.pending,
                                     ![t].buffer = re.buffer,
                                     ![t].frames = @ \o re.events, ![t].events = @ \o es]
    /\ UNCHANGED << input, sending >>

\* Faulty variant of ReadDone: what is left in the buffer is handled as a
\* last frame.
ReadDone_Flush(t) ==
    /\ turns[t].pc = "read"
    /\ turns[t].got = Len(turns[t].wire)
    /\ LET es == ClassifyLines(LinesOf(<< turns[t].buffer >>))
       IN  /\ messages' = ApplyDeltas(messages, turns[t].assistantId, Deltas(es))
           /\ turns' = [turns EXCEPT ![t] =
                           Returned([@ EXCEPT !.events = @ \o es], "completed", << >>)]
    /\ sending' = FALSE
    /\ UNCHANGED input

\* Faulty variant of ReadDone: the loop is left without setSending(false).
ReadDone_KeepSending(t) ==
    /\ turns[t].pc = "read"
    /\ turns[t].got = Len(turns[t].wire)
    /\ turns' = [turns EXCEPT ![t] = Returned(@, "completed", << >>)]
    /\ UNCHANGED << messages, input, sending >>

\* await reader.read() resolves with { done: true }: break, then finally
ReadDone(t) ==
    /\ turns[t].pc = "read"
    /\ turns[t].got = Len(turns[t].wire)
    /\ turns' = [turns EXCEPT ![t] = Returned(@, "completed", << >>)]
    /\ sending' = FALSE
    /\ UNCHANGED << messages, input >>

\* await reader.read() rejects
ReadRejects(t, message) ==
    /\ turns[t].pc = "read"
    /\ Catch(t, message)

\* The handlers of CoachChat; none of them touches the playground page.
Next(cap, streams) ==
    \/ (\E v \in Inputs : onChange(v)) /\ UNCHANGED playgroundVars
    \/ onSend(cap) /\ UNCHANGED playgroundVars
    \/ (\E t \in 1..Len(turns) : \E res \in Responses(streams) : FetchResolves(t, res))
           /\ UNCHANGED playgroundVars
    \/ (\E t \in 1..Len(turns) : \E e \in ErrorMessages : FetchRejects(t, e))
           /\ UNCHANGED playgroundVars
    \/ (\E t \in 1..Len(turns) : \E n \in 1..MaxChunk : ReadValue(t, n))
           /\ UNCHANGED playgroundVars
    \/ (\E t \in 1..Len(turns) : ReadDone(t)) /\ UNCHANGED playgroundVars
    \/ (\E t \in 1..Len(turns) : \E e \in ErrorMessages : ReadRejects(t, e))
           /\ UNCHANGED playgroundVars

\* One session, any number of dispatches up to MaxTurns.
NextSession == Next(MaxTurns, SessionStreams)
Spec == Init /\ [][NextSession]_vars

\* One session with a single dispatch, over the full set of response bodies.
NextRead == Next(1, WireStreams)
SpecRead == Init /\ [][NextRead]_vars

\* The transport settles an await of some turn: fetch resolves or rejects,
\* reader.read() gives a chunk, reports the end of the stream, or rejects.
Settles(streams) ==
    \E t \in 1..Len(turns) :
        \/ \E e \in ErrorMessages : FetchRejects(t, e)
        \/ \E e \in ErrorMessages : ReadRejects(t, e)
        \/ ReadDone(t)
        \/ \E res \in Responses(streams) : FetchResolves(t, res)
        \/ \E n \in 1..MaxChunk : ReadValue(t, n)

\* One dispatch with a transport that leaves no await pending for ever.
SpecLive == Init /\ [][NextRead]_vars /\ WF_vars(Settles(WireStreams))

(* ------------------------------------------------------------------ *)
(* The handlers of PlaygroundEditor                                     *)
(* ------------------------------------------------------------------ *)

\* onChange={(e) => setKernel(e.target.value)}
setKernel(v) ==
    /\ kernel' = v
    /\ UNCHANGED << config, running, output, timers >>
    /\ UNCHANGED vars

\* onChange={(e) => setConfig(e.target.value)}
setConfig(v) ==
    /\ config' = v
    /\ UNCHANGED << kernel, running, output, timers >>
    /\ UNCHANGED vars

\* <button onClick={fakeRun} disabled={running || !parsedConfig}>
RunDisabled == running \/ ~Truthy(ParsedConfig(config))

\* A click on Run: fakeRun up to and including its call of setTimeout.
fakeRun ==
    /\ ~RunDisabled
    /\ running' = TRUE
    /\ output' = CompilingOutput
    /\ timers' = Append(timers, [parsedConfig |-> ParsedConfig(config), config |-> config])
    /\ UNCHANGED << kernel, config >>
    /\ UNCHANGED vars

\* The callback of setTimeout(..., 600) runs.
TimerFires ==
    /\ timers # << >>
    /\ output' = Report(BlockSizeText(Head(timers).parsedConfig))
    /\ running' = FALSE
    /\ timers' = Tail(timers)
    /\ UNCHANGED << kernel, config >>
    /\ UNCHANGED vars

\* Variant: Clear also cancels the pending run, as a clearTimeout in
\* clearOutput would.
clearOutput_Cancels ==
    /\ output' = << >>
    /\ timers' = << >>
    /\ running' = FALSE
    /\ UNCHANGED << kernel, config >>
    /\ UNCHANGED vars

\* <button onClick={clearOutput}>
clearOutput ==
    /\ output' = << >>
    /\ UNCHANGED << kernel, config, running, timers >>
    /\ UNCHANGED vars

NextPlayground ==
    \/ \E v \in Kernels : setKernel(v)
    \/ \E v \in Configs : setConfig(v)
    \/ fakeRun
    \/ TimerFires
    \/ clearOutput

\* The playground page.
SpecPlayground == Init /\ [][NextPlayground]_playgroundVars

\* The playground page with timers that fire.
SpecPlaygroundLive ==
    Init /\ [][NextPlayground]_playgroundVars /\ WF_playgroundVars(TimerFires)

(* ------------------------------------------------------------------ *)
(* Properties                                                           *)
(* ------------------------------------------------------------------ *)

Turns == 1..Len(turns)

\* Content of the message with the given id.
ContentOf(id) ==
    LET i == CHOOSE i \in 1..Len(messages) : messages[i].id = id
    IN  messages[i].content

HasKind(t, kind) == \E i \in 1..Len(turns[t].events) : turns[t].events[i].kind = kind

\* C1: within one turn, once a 'data:' line whose payload trims to [DONE]
\* has been processed, no later 'data:' line of the turn (same frame, later
\* frame, later chunk) changes the assistant message's content.
C1_NothingAppliedAfterDone ==
    \A t \in Turns : \A i, j \in 1..Len(turns[t].events) :
        (i < j /\ turns[t].events[i].kind = "done") => turns[t].events[j].delta = << >>

\* C2: a dispatch made while sending is true has no effect: no message is
\* added to the transcript, no further request is opened, and sending and
\* the open turn stay as they are.
C2_DispatchWhileSendingIgnored ==
    [][sending => Len(messages') = Len(messages) /\ Len(turns') = Len(turns)]_vars

\* What one read() handing over the whole of the bytes would leave behind.
OneChunk(bytes) ==
    LET dec == Decode(<< >>, bytes)
        re == Reassemble(<< >>, dec.text)
    IN  [pending |-> dec.pending, buffer |-> re.buffer, frames |-> re.events,
         events |-> ClassifyLines(LinesOf(re.events))]

\* C3: chunk-boundary invariance. However the bytes read so far were cut
\* into chunks, the loop has split off the same frames, classified the same
\* events, kept the same carry-over and built the same assistant content as
\* if these bytes had arrived in one chunk.
C3_ChunkBoundaryInvariance ==
    \A t \in Turns : turns[t].pc = "read" =>
        LET one == OneChunk(SubSeq(turns[t].wire, 1, turns[t].got))
        IN  /\ turns[t].frames = one.frames
            /\ turns[t].events = one.events
            /\ turns[t].buffer = one.buffer
            /\ turns[t].pending = one.pending
            /\ ContentOf(turns[t].assistantId) = Flatten(Deltas(one.events))

\* A body whose delimiters and two-byte character were cut by the chunking
\* (no chunk holds more than MaxChunk bytes) has been read to its end.
C3_Witness ==
    \E t \in Turns :
        /\ turns[t].pc = "read" /\ turns[t].wire = StreamTail
        /\ turns[t].got = Len(StreamTail) /\ Len(StreamTail) > 2 * MaxChunk
        /\ Len(turns[t].frames) = 1 /\ Len(turns[t].events) = 1
        /\ turns[t].buffer # << >>

\* The delta of an event is the payload of its line: the characters after
\* 'data:' with at most one leading space removed (text), or the error
\* annotation (error event), or nothing (sentinel, status ping).
DeltaMatchesLine(e) ==
    LET p == Slice(e.line, Len(DataMarker))
    IN  CASE e.kind \in {"text", "fallback"} ->
                \/ e.delta = p
                \/ p # << >> /\ p[1] = " " /\ e.delta = Tail(p)
          [] e.kind = "error" -> IsPrefix(ErrorTag, e.delta) /\ Len(e.delta) > Len(ErrorTag)
          [] OTHER -> e.delta = << >>

\* C4 as stated: when a turn has ended, its assistant content is the
\* concatenation, in arrival order, of the text deltas and of the error
\* annotations of its error events, and of nothing else.
C4_ContentIsDeltasOnly ==
    \A t \in Turns : turns[t].pc = "done" =>
        ContentOf(turns[t].assistantId) = Flatten(Deltas(turns[t].events))

\* C4 (amended): when a turn has ended, its assistant content is the
\* concatenation, in arrival order, of the text deltas and of the error
\* annotations of its error events (parsed payloads whose error field is
\* truthy), followed, when the turn ended by a failure of the transport, by
\* the one annotation of that failure.
C4_OrderPreservation ==
    \A t \in Turns : turns[t].pc = "done" =>
        /\ \A i \in 1..Len(turns[t].events) : DeltaMatchesLine(turns[t].events[i])
        /\ ContentOf(turns[t].assistantId) =
              Flatten([i \in 1..Len(turns[t].events) |-> turns[t].events[i].delta])
                  \o (IF turns[t].outcome = "errored" THEN ErrorTag \o turns[t].error ELSE << >>)

\* A turn has ended normally after a text delta and an error event.
C4_Witness ==
    \E t \in Turns :
        /\ turns[t].pc = "done" /\ turns[t].outcome = "completed"
        /\ HasKind(t, "error") /\ HasKind(t, "text")
        /\ Len(ContentOf(turns[t].assistantId)) > Len(ErrorTag)

\* The effect cancel() is to have on turn t.
Cancelled(t) ==
    /\ turns'[t].pc = "done"
    /\ sending' = FALSE
    /\ messages' = messages

\* C5: the session exposes cancel(): whenever a turn is in flight, a step is
\* possible that ends the turn with its content as it is (the deltas applied
\* so far), has the transport read no further and sets sending false.
C5_CancelAvailable ==
    \A t \in Turns : Active(t) => ENABLED (NextSession /\ Cancelled(t))

\* C6: processing a [DONE] payload takes the turn to Completed: the read
\* loop has stopped and sending is false once the sentinel was processed.
C6_DoneCompletesTurn ==
    \A t \in Turns : HasKind(t, "done") => turns[t].outcome = "completed" /\ ~sending

\* C7: if some dispatched turn has not reached a terminal state, sending
\* is true.
C7_ActiveTurnImpliesSending ==
    (\E t \in Turns : Active(t)) => sending

\* C8: at most one assistant message is open (its turn can still append
\* to it) at any time.
C8_AtMostOneOpenMessage ==
    Cardinality({t \in Turns : Active(t)}) <= 1

\* C9: the transcript is append-only: every step keeps each message at its
\* place with its id and role, and adds messages only at the end.
C9_TranscriptAppendOnly ==
    [][/\ Len(messages') >= Len(messages)
       /\ \A i \in 1..Len(messages) :
             messages'[i].id = messages[i].id /\ messages'[i].role = messages[i].role]_vars

\* Two dispatches were made; one turn ended normally and one by a failure.
C9_Witness ==
    /\ Len(messages) = 1 + 2 * MaxTurns
    /\ messages[1].id = SeedId
    /\ \E t \in Turns : turns[t].outcome = "completed"
    /\ \E t \in Turns : turns[t].outcome = "errored"

\* C10: every content mutation appends, and only to the assistant message
\* of the turn that makes the step: each message's old content is a prefix
\* of its new content, and a message whose content changed is the assistant
\* message of the active turn that moved.
C10_MutationsAppendToOwnMessage ==
    [][\A i \in 1..Len(messages) :
          /\ IsPrefix(messages[i].content, messages'[i].content)
          /\ messages'[i].content # messages[i].content =>
                \E t \in Turns : /\ Active(t)
                                 /\ turns'[t] # turns[t]
                                 /\ turns[t].assistantId = messages[i].id
                                 /\ messages[i].role = "assistant"]_vars

\* Two turns are in flight, one of which has appended a delta while the
\* other's assistant message is still empty.
C10_Witness ==
    \E t, u \in Turns :
        /\ t # u /\ Active(t) /\ Active(u)
        /\ ContentOf(turns[t].assistantId) # << >>
        /\ ContentOf(turns[u].assistantId) = << >>

\* The annotation of the transport failure that ended turn t, if one did.
FailureNote(t) ==
    IF turns[t].outcome = "errored" THEN ErrorTag \o turns[t].error ELSE << >>

\* The characters after 'data:' of the line of event e.
AfterMarker(e) == Slice(e.line, Len(DataMarker))

IsSentinelLine(e) == TrimEnd(TrimStart(AfterMarker(e))) = DoneSentinel

\* The deltas of the events of es that are not sentinel lines.
RECURSIVE NonSentinelDeltas(_)
NonSentinelDeltas(es) ==
    IF es = << >> THEN << >>
    ELSE (IF IsSentinelLine(Head(es)) THEN << >> ELSE Head(es).delta)
             \o NonSentinelDeltas(Tail(es))

\* C11: no sentinel leak. A 'data:' line whose payload trims to [DONE],
\* with or without the separating space or white space around it, appends
\* nothing: the assistant content is made of the other lines' deltas alone.
C11_NoSentinelLeak ==
    \A t \in Turns :
        /\ \A i \in 1..Len(turns[t].events) :
              IsSentinelLine(turns[t].events[i]) => turns[t].events[i].delta = << >>
        /\ ContentOf(turns[t].assistantId) = NonSentinelDeltas(turns[t].events) \o FailureNote(t)

\* The body with the sentinel in its three spellings was read to its end.
C11_Witness ==
    \E t \in Turns :
        /\ turns[t].pc = "read" /\ turns[t].wire = StreamSentinels
        /\ turns[t].got = Len(StreamSentinels)
        /\ Len(turns[t].events) = 3
        /\ ContentOf(turns[t].assistantId) = << "k" >>

\* The fetch of turn t resolved with a response that is not ok or has no body.
OpenFailed(t) ==
    /\ turns[t].res.status # 0
    /\ ~turns[t].res.ok \/ ~turns[t].res.hasBody

\* What a turn whose open failed looks like from then on.
OpenFailureShape(t) ==
    /\ turns[t].pc = "done" /\ turns[t].outcome = "errored"
    /\ turns[t].frames = << >> /\ turns[t].events = << >> /\ turns[t].got = 0
    /\ turns[t].error = HttpPrefix \o NatToText(turns[t].res.status)
    /\ ContentOf(turns[t].assistantId) = ErrorTag \o turns[t].error

\* C12: open failure. When the response is not ok or has no body the turn
\* reads no chunk, the content of its assistant message is exactly the one
\* annotation "\n[error] HTTP <status>", the turn is errored, and the step
\* on which the response arrives leaves sending false.
C12_OpenFailure ==
    /\ [](\A t \in Turns : OpenFailed(t) => OpenFailureShape(t))
    /\ [][\A t \in Turns :
            turns[t].pc = "fetch" /\ turns'[t].res.status # 0
                /\ (~turns'[t].res.ok \/ ~turns'[t].res.hasBody)
            => /\ ~sending'
               /\ turns'[t].pc = "done" /\ turns'[t].outcome = "errored"
               /\ ContentOf(turns[t].assistantId) = << >>]_vars

\* Both kinds of open failure have happened: HTTP 500, and 204 without a body.
C12_Witness ==
    /\ Len(turns) = 2
    /\ turns[1].res = [ok |-> FALSE, status |-> 500, hasBody |-> TRUE]
    /\ turns[2].res = [ok |-> TRUE, status |-> 204, hasBody |-> FALSE]
    /\ OpenFailureShape(1) /\ OpenFailureShape(2)
    /\ ~sending

\* Turn t is in its read loop and the next state has it ended by a failure.
ReadFails(t) ==
    turns[t].pc = "read" /\ turns'[t].pc = "done" /\ turns'[t].outcome = "errored"

\* C13: mid-read failure. When reader.read() rejects after K events were
\* applied, the content becomes the content those K events produced followed
\* by exactly one "\n[error] <text>" annotation; no frame and no event is
\* added (the carry-over buffer is not classified), sending becomes false,
\* and the turn, being over, reads nothing more.
C13_MidReadFailure ==
    [][\A t \in Turns :
          /\ ReadFails(t) =>
                /\ ContentOf(turns[t].assistantId) = Flatten(Deltas(turns[t].events))
                /\ ContentOf(turns[t].assistantId)' =
                       ContentOf(turns[t].assistantId) \o ErrorTag \o turns'[t].error
                /\ turns'[t].error \in { ErrorText(e) : e \in ErrorMessages }
                /\ turns'[t].events = turns[t].events
                /\ turns'[t].frames = turns[t].frames
                /\ ~sending'
          /\ turns[t].pc = "done" =>
                /\ turns'[t] = turns[t]
                /\ ContentOf(turns[t].assistantId)' = ContentOf(turns[t].assistantId)]_vars

\* The read failed after the first frame of two was applied.
C13_Witness ==
    \E t \in Turns :
        /\ turns[t].pc = "done" /\ turns[t].outcome = "errored"
        /\ turns[t].res.ok /\ turns[t].res.hasBody /\ ~sending
        /\ Len(turns[t].events) = 1
        /\ turns[t].events[1].line = Data(<< " ", "H", "i" >>)
        /\ ContentOf(turns[t].assistantId) = << "H", "i" >> \o ErrorTag \o StreamFailed

Errored(t) == turns[t].pc = "done" /\ turns[t].outcome = "errored"

\* A dispatch that is accepted: the two messages of the new turn come after
\* the messages there were, which stay as they are, and a request is opened.
DispatchAccepted ==
    /\ Len(turns') = Len(turns) + 1
    /\ Len(messages') = Len(messages) + 2
    /\ SubSeq(messages', 1, Len(messages)) = messages
    /\ messages'[Len(messages) + 1].role = "user"
    /\ messages'[Len(messages) + 1].content = TrimEnd(TrimStart(input))
    /\ messages'[Len(messages) + 2].role = "assistant"
    /\ messages'[Len(messages) + 2].content = << >>
    /\ messages'[Len(messages) + 2].id = turns'[Len(turns')].assistantId
    /\ turns'[Len(turns')].pc = "fetch"
    /\ sending'

\* C14: the session stays usable after a failed turn. The step that ends a
\* turn as errored leaves sending false; whenever some turn has ended
\* errored and the input is not blank, a dispatch is possible, and every
\* dispatch made then appends a user message and an empty assistant message
\* after the existing ones and opens a request.
C14_UsableAfterFailure ==
    /\ [][\A t \in Turns : ~Errored(t) /\ Errored(t)' => ~sending']_vars
    /\ [](((\E t \in Turns : Errored(t)) /\ TrimEnd(TrimStart(input)) # << >>
             /\ Len(turns) < MaxTurns)
          => ENABLED (NextSession /\ DispatchAccepted))
    /\ [][(\E t \in Turns : Errored(t)) /\ Len(turns') > Len(turns)
             => DispatchAccepted]_vars

\* A second turn was dispatched after the first one had failed.
C14_Witness ==
    /\ Len(turns) = 2 /\ Errored(1) /\ turns[2].pc = "fetch" /\ sending
    /\ Len(messages) = 5
    /\ messages[3].content = ErrorTag \o turns[1].error
    /\ messages[5].content = << >>

\* The events that a step added to the log of turn t.
NewEvents(t) == SubSeq(turns'[t].events, Len(turns[t].events) + 1, Len(turns'[t].events))

\* The value of the error field of the payload of e, a line of kind "error".
ErrorValueOf(e) == ErrorField(JSONParse(TrimStart(AfterMarker(e))).val)

\* The line 'data: {"error":"<text>"}'.
ErrorLine(text) == Data(<< " " >> \o ErrorMember(<< "\"" >> \o text \o << "\"" >>))

\* C15: a structured error payload does not end the turn. A 'data:' line
\* whose payload is a JSON object with error text e appends exactly
\* "\n[error] " followed by e; the step that handles it leaves the turn in
\* its read loop with sending true, and the content goes on growing by the
\* deltas that follow it.
C15_ErrorPayloadContinues ==
    /\ [](\A t \in Turns : \A i \in 1..Len(turns[t].events) :
            LET e == turns[t].events[i]
            IN  /\ e.kind = "error" /\ ErrorValueOf(e).t = "string"
                    => e.delta = ErrorTag \o ErrorValueOf(e).s
                /\ e.line = ErrorLine(<< "e" >>) => e.kind = "error" /\ e.delta = ErrorTag \o << "e" >>)
    /\ [](\A t \in Turns : turns[t].pc = "read"
            => ContentOf(turns[t].assistantId) = Flatten(Deltas(turns[t].events)))
    /\ [][\A t \in Turns :
            (turns[t].pc = "read" /\ \E i \in 1..Len(NewEvents(t)) : NewEvents(t)[i].kind = "error")
            => turns'[t].pc = "read" /\ sending /\ sending']_vars

\* The error payload was handled and the text of the next frame came after it.
C15_Witness ==
    \E t \in Turns :
        /\ turns[t].pc = "read" /\ sending /\ turns[t].wire = StreamError
        /\ Len(turns[t].events) = 2
        /\ turns[t].events[1].line = ErrorLine(<< "e" >>)
        /\ turns[t].events[2].kind = "text"
        /\ ContentOf(turns[t].assistantId) = ErrorTag \o << "e", "x" >>

\* The payload of e parses as an object that has an error member.
CarriesError(e) ==
    LET probe == TrimStart(AfterMarker(e))
    IN  /\ StartsWith(probe, << "{" >>)
        /\ JSONParse(probe).ok
        /\ ErrorField(JSONParse(probe).val).t # "undefined"

\* The values of an error member for which nothing is appended.
IsFalsyValue(v) ==
    \/ v.t \in {"null", "false"}
    \/ v.t = "string" /\ v.s = << >>
    \/ v.t = "number" /\ v.s \in { << "0" >>, << "-", "0" >> }

LooksStructured(e) ==
    LET probe == TrimStart(AfterMarker(e))
    IN  StartsWith(probe, << "{" >>) \/ StartsWith(probe, << "[" >>)

\* The payload of e parses as JSON and gives no error event.
IsStatusPing(e) ==
    /\ LooksStructured(e)
    /\ JSONParse(TrimStart(AfterMarker(e))).ok
    /\ ~CarriesError(e) \/ IsFalsyValue(ErrorValueOf(e))

\* C17: a payload that parses as JSON (object or array) and yields no error
\* event is a status ping: it has no delta, and a step of the read loop that
\* handles nothing but status pings changes no message, neither input nor
\* sending, and leaves the turn in its read loop.
C17_StatusPingNoEffect ==
    /\ [](\A t \in Turns : \A i \in 1..Len(turns[t].events) :
            IsStatusPing(turns[t].events[i])
                => turns[t].events[i].delta = << >> /\ turns[t].events[i].kind = "ping")
    /\ [][\A t \in Turns :
            (/\ turns[t].pc = "read"
             /\ NewEvents(t) # << >>
             /\ \A i \in 1..Len(NewEvents(t)) : IsStatusPing(NewEvents(t)[i]))
            => /\ messages' = messages /\ input' = input /\ sending' = sending
               /\ turns'[t].pc = "read"]_vars

\* An object and an array were handled as status pings and nothing else was.
C17_Witness ==
    \E t \in Turns :
        /\ turns[t].pc = "read" /\ turns[t].wire = StreamFalsy
        /\ Len(turns[t].events) = 2
        /\ IsStatusPing(turns[t].events[1]) /\ IsStatusPing(turns[t].events[2])
        /\ turns[t].events[2].line = Data(<< " ", "[", "1", "]" >>)
        /\ ContentOf(turns[t].assistantId) = << >>

\* The characters after 'data:' of the line of e without one leading space.
OriginalPayload(e) ==
    LET after == AfterMarker(e)
    IN  IF after # << >> /\ after[1] = " " THEN Tail(after) ELSE after

\* The payload of e looks structured, does not parse and is not the sentinel.
IsMalformed(e) ==
    /\ LooksStructured(e)
    /\ ~JSONParse(TrimStart(AfterMarker(e))).ok
    /\ ~IsSentinelLine(e)

\* C18: parse-failure fallback. A payload whose first character that is not
\* white space is { or [, that does not parse as JSON and does not trim to
\* [DONE], is appended exactly as it is, white space before and after it
\* kept, and is part of the content from then on.
C18_ParseFailureFallback ==
    \A t \in Turns :
        /\ \A i \in 1..Len(turns[t].events) :
              LET e == turns[t].events[i]
              IN  IsMalformed(e) => e.delta = OriginalPayload(e) /\ e.delta # << >>
        /\ turns[t].pc = "read"
              => ContentOf(turns[t].assistantId) = Flatten(Deltas(turns[t].events))

\* The payload " {x " was appended with its white space, before "a \t".
C18_Witness ==
    \E t \in Turns :
        /\ turns[t].pc = "read" /\ turns[t].wire = StreamSpaces
        /\ Len(turns[t].events) = 2
        /\ IsMalformed(turns[t].events[1])
        /\ turns[t].events[1].line = Data(<< " ", " ", "{", "x", " " >>)
        /\ ContentOf(turns[t].assistantId) = << " ", "{", "x", " ", "a", " ", "\t" >>

\* The payload of e is plain text.
IsPlainText(e) == ~LooksStructured(e) /\ ~IsSentinelLine(e)

\* C19: payload extraction strips one leading space after 'data:' when
\* there is one and nothing else: the delta of a plain-text line is the
\* characters after 'data:' minus at most one leading space, so 'data: Hi'
\* gives "Hi", 'data:  yo' gives " yo", 'data:x' gives "x" and
\* 'data: a \t' gives "a \t".
C19_PayloadExtraction ==
    \A t \in Turns : \A i \in 1..Len(turns[t].events) :
        LET e == turns[t].events[i]
        IN  /\ IsPlainText(e) => e.delta = OriginalPayload(e)
            /\ e.line = Data(<< " ", "H", "i" >>) => e.delta = << "H", "i" >>
            /\ e.line = Data(<< " ", " ", "y", "o" >>) => e.delta = << " ", "y", "o" >>
            /\ e.line = Data(<< "x" >>) => e.delta = << "x" >>
            /\ e.line = Data(<< " ", "a", " ", "\t" >>) => e.delta = << "a", " ", "\t" >>

\* The frames 'data: Hi' and 'data:  yo' gave the content "Hi yo".
C19_Witness ==
    \E t \in Turns :
        /\ turns[t].wire = StreamHello /\ turns[t].got = Len(StreamHello)
        /\ Len(turns[t].events) = 2
        /\ IsPlainText(turns[t].events[1]) /\ IsPlainText(turns[t].events[2])
        /\ ContentOf(turns[t].assistantId) = << "H", "i", " ", "y", "o" >>

\* The frames of fs, each followed by the delimiter.
RECURSIVE Delimited(_)
Delimited(fs) ==
    IF fs = << >> THEN << >> ELSE Head(fs) \o FrameDelimiter \o Delimited(Tail(fs))

HasDelimiter(s) ==
    \E i \in 1..(Len(s) - Len(FrameDelimiter) + 1) :
        SubSeq(s, i, i + Len(FrameDelimiter) - 1) = FrameDelimiter

\* The text of the chunks that turn t has received.
Received(t) == Decode(<< >>, SubSeq(turns[t].wire, 1, turns[t].got)).text

\* C20: frame reassembly loses nothing while the stream is open. After every
\* chunk the frames emitted so far, each followed by "\n\n", and then the
\* carry-over buffer make up the text of the chunks received; neither a
\* frame nor the buffer holds a delimiter, so a frame is emitted once its
\* "\n\n" has arrived in full and not before, however the chunks are cut.
C20_ReassemblyLosesNothing ==
    \A t \in Turns : turns[t].pc = "read" =>
        /\ Delimited(turns[t].frames) \o turns[t].buffer = Received(t)
        /\ ~HasDelimiter(turns[t].buffer)
        /\ \A i \in 1..Len(turns[t].frames) : ~HasDelimiter(turns[t].frames[i])

\* One frame was emitted, and of the next delimiter only the first line
\* break has arrived: it waits in the buffer.
C20_Witness ==
    \E t \in Turns :
        /\ turns[t].pc = "read" /\ turns[t].wire = StreamHello
        /\ Len(turns[t].frames) = 1
        /\ turns[t].buffer = Data(<< " ", " ", "y", "o" >>) \o LineBreak

\* The input field holds nothing but white space.
Blank == \A i \in 1..Len(input) : IsWhite(input[i])

\* C21: dispatching empty or white-space-only text is a silent no-op. While
\* the input is blank a dispatch is possible and leaves every variable as it
\* is, and no step at all adds a message, opens a request, or turns sending
\* on; the input changes only by typing.
C21_BlankDispatchIsNoOp ==
    /\ [](Blank /\ Len(turns) < MaxTurns => ENABLED (onSend(MaxTurns) /\ UNCHANGED vars))
    /\ [][Blank => /\ Len(messages') = Len(messages)
                   /\ Len(turns') = Len(turns)
                   /\ sending' => sending
                   /\ input' # input => turns' = turns /\ messages' = messages]_vars

\* After a first turn has ended the input holds one space and a dispatch
\* can be made.
C21_Witness ==
    /\ input = << " " >> /\ Len(turns) = 1 /\ ~Active(1) /\ ~sending
    /\ ENABLED (onSend(MaxTurns) /\ UNCHANGED vars)

\* The last two messages of the transcript are a user message and then an
\* empty assistant message with the given id.
EndsWithNewTurn(m, assistantId) ==
    /\ Len(m) >= 3
    /\ m[Len(m) - 1].role = "user"
    /\ m[Len(m)].role = "assistant" /\ m[Len(m)].id = assistantId
    /\ m[Len(m)].content = << >>

\* C22: an accepted dispatch appends exactly two messages at the end of
\* the transcript, the user message (content the trimmed input) and then a
\* new assistant message with empty content, and sets sending true; in the
\* state it leaves, the new turn has no response yet and has read no chunk.
\* Messages are added by no other step.
C22_DispatchAppendsTwoMessages ==
    [][/\ Len(turns') > Len(turns) =>
            /\ Len(turns') = Len(turns) + 1
            /\ ~Blank
            /\ messages' = messages \o SubSeq(messages', Len(messages) + 1, Len(messages) + 2)
            /\ EndsWithNewTurn(messages', turns'[Len(turns')].assistantId)
            /\ messages'[Len(messages') - 1].content = TrimEnd(TrimStart(input))
            /\ \A i \in 1..Len(messages) :
                   messages[i].id \notin { messages'[Len(messages') - 1].id, messages'[Len(messages')].id }
            /\ sending'
            /\ turns'[Len(turns')].pc = "fetch"
            /\ turns'[Len(turns')].res = NoResponse
            /\ turns'[Len(turns')].got = 0 /\ turns'[Len(turns')].events = << >>
       /\ Len(messages') # Len(messages) => Len(turns') > Len(turns)]_vars

\* The text " hi " was dispatched: "hi" and an empty assistant message are
\* the last two messages, sending is true, and no response has arrived.
C22_Witness ==
    /\ Len(turns) = 1 /\ turns[1].pc = "fetch" /\ turns[1].res = NoResponse
    /\ Len(messages) = 3 /\ sending
    /\ EndsWithNewTurn(messages, turns[1].assistantId)
    /\ messages[2].content = << "h", "i" >>

\* Role and content of a message, as the request carries them.
Wire(msg) == [role |-> msg.role, content |-> msg.content]

\* C23: the messages list of the outbound request is the role and content
\* of every message that was in the transcript before the dispatch, in
\* transcript order, followed by the new user message as last element; the
\* empty assistant placeholder of the same dispatch is not in it, and the
\* list of a request once made does not change.
C23_RequestCarriesPriorTranscript ==
    [][/\ Len(turns') > Len(turns) =>
            LET body == turns'[Len(turns')].body
            IN  /\ Len(body) = Len(messages) + 1
                /\ Len(body) = Len(messages') - 1
                /\ \A i \in 1..Len(messages) : body[i] = Wire(messages[i])
                /\ body[Len(body)] = Wire(messages'[Len(messages') - 1])
                /\ body[Len(body)] = [role |-> "user", content |-> TrimEnd(TrimStart(input))]
       /\ \A t \in Turns : turns'[t].body = turns[t].body]_vars

\* The request of a second turn carries the seed, the first user message,
\* the first assistant message with what it had received, and the new user
\* message.
C23_Witness ==
    /\ Len(turns) = 2
    /\ Len(turns[2].body) = 4
    /\ turns[2].body[1] = [role |-> "system", content |-> SeedContent]
    /\ turns[2].body[2] = [role |-> "user", content |-> InitialInput]
    /\ turns[2].body[3] = [role |-> "assistant", content |-> << "a" >>]
    /\ turns[2].body[4] = [role |-> "user", content |-> << "h", "i" >>]

\* Turn t is in its read loop and the next state has it ended normally.
ReadEnds(t) ==
    turns[t].pc = "read" /\ turns'[t].pc = "done" /\ turns'[t].outcome = "completed"

\* C24: at stream end the carry-over buffer is dropped silently, also when
\* it is not empty and holds a complete 'data:' line: the step that ends the
\* turn on end of stream applies no event, changes no message (no delta, no
\* error annotation), and leaves the turn completed with sending false.
C24_TrailingBufferDropped ==
    [][\A t \in Turns : ReadEnds(t) =>
          /\ messages' = messages
          /\ turns'[t].events = turns[t].events
          /\ turns'[t].frames = turns[t].frames
          /\ turns'[t].error = << >>
          /\ ~sending']_vars

\* The whole body was read, the buffer holds the line 'data:z' that no
\* delimiter followed, and the turn can end normally with the content as it is.
C24_Witness ==
    \E t \in Turns :
        /\ turns[t].pc = "read" /\ turns[t].wire = StreamTail
        /\ turns[t].got = Len(StreamTail)
        /\ turns[t].buffer = LineBreak \o Data(<< "z" >>) \o LineBreak
        /\ ContentOf(turns[t].assistantId) = << EAcute >>
        /\ ENABLED (NextRead /\ ReadEnds(t) /\ messages' = messages /\ ~sending')

\* C25: terminal states are absorbing. Once onSend has returned for a turn
\* (its finally block has run), the content of the turn's assistant message
\* and the record of the turn never change again, whatever later
\* dispatches and other turns do.
C25_TerminalAbsorbing ==
    [][\A t \in Turns : ~Active(t) =>
          /\ ~Active(t)'
          /\ turns'[t].outcome = turns[t].outcome
          /\ turns'[t].events = turns[t].events
          /\ ContentOf(turns[t].assistantId)' = ContentOf(turns[t].assistantId)]_vars

\* The first turn has ended; a second turn, dispatched after that, has
\* appended a delta to its own message.
C25_Witness ==
    /\ Len(turns) = 2 /\ ~Active(1) /\ turns[1].outcome = "completed"
    /\ turns[2].pc = "read" /\ sending
    /\ ContentOf(turns[1].assistantId) = << "a" >>
    /\ ContentOf(turns[2].assistantId) = << "a" >>

\* The line begins with 'data:' at column 0.
IsMarkerLine(ln) == Len(ln) >= 5 /\ SubSeq(ln, 1, 5) = << "d", "a", "t", "a", ":" >>

\* The lines of the frames of fs, in order.
RECURSIVE FrameLines(_)
FrameLines(fs) ==
    IF fs = << >> THEN << >> ELSE Split(Head(fs), << "\n" >>) \o FrameLines(Tail(fs))

\* The frames that a step added to the log of turn t.
NewFrames(t) == SubSeq(turns'[t].frames, Len(turns[t].frames) + 1, Len(turns'[t].frames))

\* C26: within a frame only the lines that begin with 'data:' at column 0
\* produce events: the lines of the events are the marker lines of the
\* frames, in order. A step that emits frames without any such line (empty
\* lines, event: and id: lines, comments, 'data:' after white space) changes
\* no message, adds no event and leaves the turn in its read loop.
C26_OnlyMarkerLinesCount ==
    /\ [](\A t \in Turns :
            [i \in 1..Len(turns[t].events) |-> turns[t].events[i].line]
                = SelectSeq(FrameLines(turns[t].frames), IsMarkerLine))
    /\ [][\A t \in Turns :
            (/\ turns[t].pc = "read"
             /\ NewFrames(t) # << >>
             /\ SelectSeq(FrameLines(NewFrames(t)), IsMarkerLine) = << >>)
            => /\ messages' = messages /\ sending' = sending
               /\ turns'[t].events = turns[t].events
               /\ turns'[t].pc = "read"]_vars

\* Two frames without a 'data:' line at column 0 were emitted and nothing
\* was appended.
C26_Witness ==
    \E t \in Turns :
        /\ turns[t].pc = "read" /\ turns[t].wire = StreamFields
        /\ Len(turns[t].frames) = 2
        /\ turns[t].frames[2] = LineBreak \o << ":", "c" >> \o LineBreak \o << " " >> \o Data(<< "q" >>)
        /\ turns[t].events = << >>
        /\ ContentOf(turns[t].assistantId) = << >>

\* The deltas of the events of es one after the other, nothing in between.
RECURSIVE Concatenated(_)
Concatenated(es) ==
    IF es = << >> THEN << >> ELSE Head(es).delta \o Concatenated(Tail(es))

\* C27: a frame with several 'data:' lines yields one event per line,
\* applied in line order, the deltas concatenated with nothing put between
\* them: every pass of the read loop extends the content by the deltas of
\* the lines it handled, in their order, and the frame "data: a\ndata: b"
\* gives two events and the content "ab".
C27_OneEventPerLine ==
    /\ [](\A t \in Turns :
            /\ Len(turns[t].events) = Len(SelectSeq(FrameLines(turns[t].frames), IsMarkerLine))
            /\ (turns[t].pc = "read" /\ turns[t].wire = StreamLines /\ turns[t].frames # << >>)
                => /\ Len(turns[t].events) = 2
                   /\ turns[t].events[1].line = Data(<< " ", "a" >>)
                   /\ turns[t].events[2].line = Data(<< " ", "b" >>)
                   /\ ContentOf(turns[t].assistantId) = << "a", "b" >>)
    /\ [][\A t \in Turns :
            turns[t].pc = "read" /\ turns'[t].pc = "read"
            => ContentOf(turns[t].assistantId)' =
                   ContentOf(turns[t].assistantId) \o Concatenated(NewEvents(t))]_vars

\* The frame of two lines was handled in one pass.
C27_Witness ==
    \E t \in Turns :
        /\ turns[t].pc = "read" /\ turns[t].wire = StreamLines
        /\ Len(turns[t].frames) = 1 /\ Len(turns[t].events) = 2
        /\ ContentOf(turns[t].assistantId) = << "a", "b" >>

\* C28: every accepted dispatch eventually returns the session to sending
\* false, given a transport that eventually fails or reports the end of the
\* stream: every turn ends, the step that ends it (normal end, open failure,
\* mid-read failure) leaves sending false, and no other step of the turn
\* touches sending.
C28_SendingEventuallyFalse ==
    /\ sending ~> ~sending
    /\ \A t \in 1..MaxTurns : (t <= Len(turns) /\ Active(t)) ~> (t <= Len(turns) /\ ~Active(t))
    /\ [][\A t \in Turns :
            /\ Active(t) /\ ~Active(t)' => ~sending'
            /\ Active(t) /\ Active(t)' /\ turns'[t] # turns[t] => sending' = sending
            /\ ~Active(t) => turns'[t] = turns[t]]_vars

\* The turn has ended on the end of a stream it had read, and sending is false.
C28_Witness ==
    /\ Len(turns) = 1 /\ ~sending
    /\ turns[1].pc = "done" /\ turns[1].outcome = "completed"
    /\ Len(turns[1].events) = 2
    /\ ContentOf(turns[1].assistantId) = << "H", "i", " ", "y", "o" >>

\* The indexes of the messages whose id is the assistantId of turn t.
OwnMessages(t) == { i \in 1..Len(messages) : messages[i].id = turns[t].assistantId }

\* C29: deltas and error annotations are routed by message id. The ids of
\* the messages are all different and each turn has one message of its own,
\* an assistant message; a step made by a turn changes no message but that
\* one, so with two turns active at once nothing of one turn reaches the
\* other turn's message, a user message or the system message.
C29_RoutedByMessageId ==
    /\ [](/\ \A i, j \in 1..Len(messages) : messages[i].id = messages[j].id => i = j
          /\ \A t \in Turns :
                /\ Cardinality(OwnMessages(t)) = 1
                /\ \A i \in OwnMessages(t) : messages[i].role = "assistant")
    /\ [][\A t \in Turns :
            turns'[t] # turns[t] =>
                \A i \in 1..Len(messages) :
                    i \notin OwnMessages(t) => messages'[i] = messages[i]]_vars

\* Two turns overlapped: the second was dispatched while the message of the
\* first was still empty; the first then received a delta and failed, the
\* second failed on opening, and each message holds its own turn's text.
C29_Witness ==
    /\ Len(turns) = 2
    /\ turns[2].body[3] = [role |-> "assistant", content |-> << >>]
    /\ turns[1].res.status = 200 /\ turns[2].res.status = 500
    /\ ContentOf(turns[1].assistantId) = << "a" >> \o ErrorTag \o StreamFailed
    /\ ContentOf(turns[2].assistantId) = ErrorTag \o HttpPrefix \o NatToText(500)

\* C30: in every state each user message is immediately followed by the
\* assistant message created by the same dispatch: the transcript is the
\* seed system message and then, for each turn in order, a user message
\* and the turn's assistant message, so that roles alternate and there are
\* as many assistant messages as user messages.
C30_UserThenAssistant ==
    /\ Len(messages) = 1 + 2 * Len(turns)
    /\ messages[1].role = "system" /\ messages[1].id = SeedId
    /\ \A t \in Turns :
          /\ messages[2 * t].role = "user"
          /\ messages[2 * t + 1].role = "assistant"
          /\ messages[2 * t + 1].id = turns[t].assistantId
    /\ Cardinality({ i \in 1..Len(messages) : messages[i].role = "assistant" })
           = Cardinality({ i \in 1..Len(messages) : messages[i].role = "user" })

\* A second dispatch was made while the first turn was still waiting for
\* its response: the transcript is system, user, assistant, user, assistant.
C30_Witness ==
    /\ Len(turns) = 2 /\ turns[1].pc = "fetch" /\ turns[2].pc = "fetch"
    /\ [i \in 1..Len(messages) |-> messages[i].role]
           = << "system", "user", "assistant", "user", "assistant" >>

\* ---------------------------------------------------------------------
\* PlaygroundEditor: starting a run
\* ---------------------------------------------------------------------

\* The config text is valid JSON: JSON.parse(config) does not throw.
ValidConfig == JSONParse(config).ok

\* A run can be started only while running is false and the config text
\* parses as JSON.
StartGuarded == ~RunDisabled => (~running /\ ValidConfig)

\* At most one run timer is pending at any time, and one is pending
\* exactly while running is true.
OneTimerPending == Len(timers) <= 1 /\ (running <=> Len(timers) = 1)

\* Run is enabled, while no run is pending, for every config text that is
\* valid JSON.
RunEnabledWhenValid == (~running /\ ValidConfig) => ~RunDisabled

\* C31: a simulated run can be started only while running is false and the
\* config text parses as JSON; so at most one run timer is pending at any
\* time, and Run is enabled for every config text that is valid JSON.
C31_RunStartsIffValidJson ==
    /\ StartGuarded
    /\ OneTimerPending
    /\ RunEnabledWhenValid

\* ---------------------------------------------------------------------
\* PlaygroundEditor: the end of a run
\* ---------------------------------------------------------------------

\* The block_size shown for a config text, read off the text itself: the
\* number of the two texts that carry one, n/a for every other text.
ShownBlockSize(text) ==
    IF text = defaultConfig THEN << "1", "2", "8" >>
    ELSE IF text = << "{", "\"", "b", "l", "o", "c", "k", "_", "s", "i", "z", "e", "\"", ":", "6", "4", "}" >>
         THEN << "6", "4" >>
         ELSE << "n", "/", "a" >>

\* The four-line report of a run started with the given config text.
ReportFor(text) ==
    << "Compile: success", "\n", "Config: block_size=" >> \o ShownBlockSize(text)
        \o << "\n", "Validate: OK vs PyTorch baseline", "\n",
              "Latency: 12.34 us  |  Throughput: 89.0 GB/s" >>

\* A step in which the pending run ends.
RunEnds == timers # << >> /\ timers' = << >>

\* The run ends with running = false and the report of the config text it
\* was started with, whatever the output and the config text are by then.
EndsWithReport ==
    RunEnds => /\ running' = FALSE
               /\ output' = ReportFor(Head(timers).config)

\* No other step touches a pending run: editing the kernel or the config
\* and pressing Clear leave the timer pending and running true.
NotCancelled ==
    (timers # << >> /\ ~RunEnds) => (timers' = timers /\ running' = TRUE)

\* C32: every started run eventually ends with running = false and output
\* equal to the four-line report whose block_size is the one of the config
\* parsed when the run started; editing the config or pressing Clear while
\* the run is pending does not cancel the run, and the report overwrites
\* the cleared output when the timer fires.
C32_RunEndsWithReport ==
    /\ (timers # << >>) ~> (timers = << >> /\ ~running)
    /\ [][EndsWithReport /\ NotCancelled]_playgroundVars

\* A run started with {"block_size":64} has ended: its report is shown
\* although the config text was replaced by one that does not parse.
C32_Witness ==
    /\ ~running /\ timers = << >>
    /\ config = << "{", "x" >>
    /\ output = ReportFor(<< "{", "\"", "b", "l", "o", "c", "k", "_", "s", "i", "z", "e", "\"", ":", "6", "4", "}" >>)

====
